---- MODULE Spec2Model ----
(***************************************************************************)
(* AsyncStore (react-with-use/src/asyncStore.ts): a wrapper around the     *)
(* browser's IndexedDB database "react-with-use".  The model holds the     *)
(* database the engine persists (version, object stores, indexes,          *)
(* records), one AsyncStore instance at a time (its open request and its   *)
(* _store promise), the operations that are in flight, and the operation   *)
(* that settled last.                                                      *)
(***************************************************************************)
EXTENDS Integers, Sequences, FiniteSets, TLC

\* ------------------------------------------------------------- bounds
MaxVersion == 2
MaxEvents == 4

\* ------------------------------------------------------------- universes
TableNames == {"todos", "users"}
CallerIds == {"k1", "k2"}
UuidPool == <<"u1", "u2", "u3", "u4", "u5">>
KeyOrder == <<"k1", "k2">> \o UuidPool
NoId == "-"
NoKey == "-"

\* A record: an opaque structured value; id = NoId stands for a value that
\* carries no "id" field.
Rec(id, title) == [id |-> id, title |-> title]
Records == {Rec("k1", "a"), Rec("k1", "b"), Rec("k2", "a"), Rec(NoId, "a")}
NoRec == [id |-> NoId, title |-> "-"]

\* JavaScript values an operation can resolve with.
Undefined == [tag |-> "undefined"]
Null == [tag |-> "null"]
Void == [tag |-> "void"]
RecV(r) == [tag |-> "record", rec |-> r]
ArrV(s) == [tag |-> "array", items |-> s]

\* Index declarations (IDBIndexParameters per index name) and schemas (Tables).
IdUnique == [name |-> "id", unique |-> TRUE]
TitleUnique == [name |-> "title", unique |-> TRUE]
TodoIndexes == {IdUnique, TitleUnique}
\* The schema declarations a page constructs the store with.
Schemas ==
  { [t \in {"todos"} |-> {IdUnique}],
    [t \in {"users"} |-> {}],
    [t \in {"todos", "users"} |-> IF t = "todos" THEN TodoIndexes ELSE {}] }

Emp == [k \in {} |-> NoRec]

VARIABLES
  dbVersion,     \* version of the persisted database (0: it does not exist)
  storeNames,    \* objectStoreNames of the persisted database
  indexes,       \* table -> set of index declarations
  records,       \* table -> (key -> record), the stored records
  otherConn,     \* another connection (another tab) holds the database open
  inst,          \* "none" | "live": the AsyncStore instance of the page
  tables,        \* constructor argument: the schema declaration
  reqVersion,    \* constructor argument: dbVersion
  openReq,       \* the IDBOpenDBRequest: none|pending|blocked|upgraded|success|error
  storePromise,  \* this._store: none|pending|fulfilled|rejected
  storeErr,      \* the error this._store rejected with
  opens,         \* indexedDB.open calls made by the instance
  threw,         \* an event handler of the open request ended by an exception
  waiting,       \* operations suspended at `await this._store`, in call order
  requests,      \* operations whose request is placed, in transaction order
  last,          \* the operation that settled last
  nEvents,       \* constructions, calls and other-tab opens so far
  uuidCount      \* randomUUID calls so far

vars == <<dbVersion, storeNames, indexes, records, otherConn, inst, tables,
          reqVersion, openReq, storePromise, storeErr, opens, threw, waiting,
          requests, last, nEvents, uuidCount>>

dbVars == <<dbVersion, storeNames, indexes, records>>
instVars == <<inst, tables, reqVersion, openReq, storePromise, storeErr, opens, threw>>
opVars == <<waiting, requests, last, uuidCount>>

NoLast == [n |-> 0, kind |-> "none", table |-> "-", key |-> NoKey, skey |-> NoKey,
           rec |-> NoRec, status |-> "none", value |-> Void, err |-> "none"]

Init ==
  /\ dbVersion = 0
  /\ storeNames = {}
  /\ indexes = [t \in TableNames |-> {}]
  /\ records = [t \in TableNames |-> Emp]
  /\ otherConn = FALSE
  /\ inst = "none"
  /\ tables = Emp
  /\ reqVersion = 0
  /\ openReq = "none"
  /\ storePromise = "none"
  /\ storeErr = "none"
  /\ opens = 0
  /\ threw = FALSE
  /\ waiting = <<>>
  /\ requests = <<>>
  /\ last = NoLast
  /\ nEvents = 0
  /\ uuidCount = 0

\* ------------------------------------------------------------- createTables
\* hasUpdates: every declared table is absent from the database.
HasUpdates(tbls, names) == \A t \in DOMAIN tbls : t \notin names

MissingTables(tbls, names) == {t \in DOMAIN tbls : t \notin names}

\* The tables createTables passes to createObjectStore.
TablesToCreate(tbls, names) ==
  IF HasUpdates(tbls, names) THEN MissingTables(tbls, names) ELSE {}

\* createObjectStore throws InvalidStateError outside an upgrade transaction.
CreateTablesThrows(tbls, names, inUpgrade) ==
  ~inUpgrade /\ TablesToCreate(tbls, names) # {}

\* Variant: every declared table is created anew, an existing one included.
CreateTablesRecreate(tbls) ==
  /\ storeNames' = storeNames \cup DOMAIN tbls
  /\ indexes' = [t \in TableNames |-> IF t \in DOMAIN tbls THEN tbls[t] ELSE indexes[t]]
  /\ records' = [t \in TableNames |-> IF t \in DOMAIN tbls THEN Emp ELSE records[t]]

\* createTables inside the upgrade transaction of the open request.
CreateTables(tbls) ==
  LET new == TablesToCreate(tbls, storeNames) IN
  /\ storeNames' = storeNames \cup new
  /\ indexes' = [t \in TableNames |-> IF t \in new THEN tbls[t] ELSE indexes[t]]
  /\ records' = [t \in TableNames |-> IF t \in new THEN Emp ELSE records[t]]

\* ------------------------------------------------------------- construction
\* constructor + the synchronous part of _initializeStore: indexedDB.open.
Construct(tbls, v) ==
  /\ inst = "none"
  /\ nEvents < MaxEvents
  /\ inst' = "live"
  /\ nEvents' = nEvents + 1
  /\ tables' = tbls
  /\ reqVersion' = v
  /\ openReq' = "pending"
  /\ storePromise' = "pending"
  /\ storeErr' = "none"
  /\ opens' = 1
  /\ threw' = FALSE
  /\ UNCHANGED <<dbVars, otherConn, opVars>>

\* A promise settles once: reject on a settled promise changes nothing.
Reject(e) ==
  /\ storePromise' = IF storePromise = "pending" THEN "rejected" ELSE storePromise
  /\ storeErr' = IF storePromise = "pending" THEN e ELSE storeErr

\* Variant: the success handler overwrites the outcome.
ResolveOverwrites ==
  /\ storePromise' = "fulfilled"
  /\ storeErr' = "none"

Resolve ==
  /\ storePromise' = IF storePromise = "pending" THEN "fulfilled" ELSE storePromise
  /\ storeErr' = storeErr

\* store.onerror: the engine refuses the open (a version below the stored
\* one, or a failure of the backing store).
OnError ==
  /\ openReq = "pending"
  /\ openReq' = "error"
  /\ Reject("OpeningDbError")
  /\ UNCHANGED <<dbVars, otherConn, inst, tables, reqVersion, opens, threw, opVars, nEvents>>

\* store.onblocked: an upgrade is needed and another connection stays open.
OnBlocked ==
  /\ openReq = "pending"
  /\ reqVersion > dbVersion
  /\ otherConn
  /\ openReq' = "blocked"
  /\ Reject("OpeningDbError")
  /\ UNCHANGED <<dbVars, otherConn, inst, tables, reqVersion, opens, threw, opVars, nEvents>>

\* store.onupgradeneeded: the upgrade transaction runs once no other
\* connection is open.
OnUpgradeNeeded ==
  /\ openReq \in {"pending", "blocked"}
  /\ reqVersion > dbVersion
  /\ ~otherConn
  /\ dbVersion' = reqVersion
  /\ CreateTables(tables)
  /\ openReq' = "upgraded"
  /\ UNCHANGED <<otherConn, inst, tables, reqVersion, storePromise, storeErr, opens,
                 threw, opVars, nEvents>>

\* store.onsuccess: createTables runs again, outside the upgrade transaction,
\* and an exception it raises ends the handler before resolve.
OnSuccess ==
  /\ \/ openReq = "upgraded"
     \/ openReq = "pending" /\ reqVersion = dbVersion
  /\ openReq' = "success"
  /\ IF CreateTablesThrows(tables, storeNames, FALSE)
       THEN threw' = TRUE /\ UNCHANGED <<storePromise, storeErr>>
       ELSE threw' = threw /\ Resolve
  /\ UNCHANGED <<dbVars, otherConn, inst, tables, reqVersion, opens, opVars, nEvents>>

\* result.onversionchange: another page asks for an upgrade while this
\* connection is open.  The handler, set by store.onsuccess before its own
\* createTables call, runs createTables on the open connection, outside any
\* upgrade transaction; it does not close the connection, so the other
\* page's upgrade does not run while this instance lives.
OnVersionChange ==
  /\ openReq = "success"
  /\ nEvents < MaxEvents
  /\ nEvents' = nEvents + 1
  /\ IF CreateTablesThrows(tables, storeNames, FALSE)
       THEN threw' = TRUE /\ UNCHANGED <<storeNames, indexes, records>>
       ELSE threw' = threw /\ CreateTables(tables)
  /\ UNCHANGED <<dbVersion, otherConn, inst, tables, reqVersion, openReq, storePromise,
                 storeErr, opens, opVars>>

\* The page is closed or reloaded: the instance and its connection are gone.
Reload ==
  /\ inst = "live"
  /\ inst' = "none"
  /\ tables' = Emp
  /\ reqVersion' = 0
  /\ openReq' = "none"
  /\ storePromise' = "none"
  /\ storeErr' = "none"
  /\ opens' = 0
  /\ threw' = FALSE
  /\ waiting' = <<>>
  /\ requests' = <<>>
  /\ last' = NoLast
  /\ UNCHANGED <<dbVars, otherConn, nEvents, uuidCount>>

\* Another tab opens the database at its current version, or closes.
OtherOpens ==
  /\ ~otherConn
  /\ dbVersion > 0
  /\ openReq \notin {"pending", "blocked", "upgraded"}
  /\ nEvents < MaxEvents
  /\ nEvents' = nEvents + 1
  /\ otherConn' = TRUE
  /\ UNCHANGED <<dbVars, instVars, opVars>>

OtherCloses ==
  /\ otherConn
  /\ otherConn' = FALSE
  /\ UNCHANGED <<dbVars, instVars, opVars, nEvents>>

\* ------------------------------------------------------------- the engine's object stores
\* The value of a record at an index key path; NoId: the path yields nothing
\* and the record is not indexed.
Field(rec, name) == IF name = "id" THEN rec.id ELSE rec.title

\* A unique index of table t already holds the value of rec under another key.
UniqueViolation(t, key, rec) ==
  \E ix \in indexes[t] :
    /\ ix.unique
    /\ Field(rec, ix.name) # NoId
    /\ \E k \in DOMAIN records[t] \ {key} :
         Field(records[t][k], ix.name) = Field(rec, ix.name)

StorePut(f, key, rec) == [k \in DOMAIN f \cup {key} |-> IF k = key THEN rec ELSE f[k]]

StoreDelete(f, key) == [k \in DOMAIN f \ {key} |-> f[k]]

\* IDBObjectStore.get: the value stored under the key, else undefined.
StoreGet(f, key) == IF key \in DOMAIN f THEN RecV(f[key]) ELSE Undefined

RECURSIVE ValuesInOrder(_, _)
ValuesInOrder(f, keys) ==
  IF keys = <<>> THEN <<>>
  ELSE IF Head(keys) \in DOMAIN f
         THEN <<f[Head(keys)]>> \o ValuesInOrder(f, Tail(keys))
         ELSE ValuesInOrder(f, Tail(keys))

\* Variant: an empty table yields null.
StoreGetAllOrNull(f) == IF DOMAIN f = {} THEN Null ELSE ArrV(ValuesInOrder(f, KeyOrder))

\* IDBObjectStore.getAll: every stored value, in ascending key order.
StoreGetAll(f) == ArrV(ValuesInOrder(f, KeyOrder))

\* ------------------------------------------------------------- operations
Op(kind, t, key, rec) == [kind |-> kind, table |-> t, key |-> key, skey |-> NoKey, rec |-> rec]

\* The calls a page can make on the instance.
Calls ==
  {Op("get", t, k, NoRec) : t \in TableNames, k \in CallerIds}
  \cup {Op("getAll", t, NoKey, NoRec) : t \in TableNames}
  \cup {Op("create", t, r.id, r) : t \in TableNames, r \in Records}
  \cup {Op("update", t, r.id, r) : t \in TableNames, r \in {x \in Records : x.id # NoId}}
  \cup {Op("delete", t, k, NoRec) : t \in TableNames, k \in CallerIds}

\* globalThis.crypto.randomUUID(): a key no earlier call returned.
NextUuid == UuidPool[uuidCount + 1]

\* The key each operation hands to the object store.
GetKey(op) == op.key
\* Variant: create always generates the key.
CreateKeyRandom(op) == NextUuid
CreateKey(op) == IF op.rec.id # NoId THEN op.rec.id ELSE NextUuid
\* Variant: update keys the record by the id of the resource.
UpdateKeyById(op) == op.key
UpdateKey(op) == NextUuid
DeleteKey(op) == op.key

UsesUuid(op) ==
  \/ op.kind = "update"
  \/ op.kind = "create" /\ op.rec.id = NoId

RequestKey(op) ==
  CASE op.kind = "get" -> GetKey(op)
    [] op.kind = "create" -> CreateKey(op)
    [] op.kind = "update" -> UpdateKey(op)
    [] op.kind = "delete" -> DeleteKey(op)
    [] OTHER -> NoKey

\* Variant: every transaction is opened on the todos table.
TxTableTodos(op) == "todos"

\* The table _getTable opens the transaction and the object store on.
TxTable(op) == op.table

\* The error the catch block of each operation throws.
CatchError(kind) == IF kind = "delete" THEN "Error" ELSE "BaseError"

Settled(op, status, value, err) ==
  [n |-> last.n + 1, kind |-> op.kind, table |-> op.table, key |-> op.key,
   skey |-> op.skey, rec |-> op.rec, status |-> status, value |-> value, err |-> err]

RemoveAt(s, i) == SubSeq(s, 1, i - 1) \o SubSeq(s, i + 1, Len(s))

\* The part of an operation after `await this._getTable(...)`: _getTable
\* throws when _store is rejected or the table is no object store, and the
\* catch block rejects; else the request is placed on a new transaction.
Proceed(op) ==
  IF storePromise = "rejected" \/ TxTable(op) \notin storeNames
    THEN /\ last' = Settled(op, "rejected", Void, CatchError(op.kind))
         /\ UNCHANGED <<requests, uuidCount>>
    ELSE /\ requests' = Append(requests, [op EXCEPT !.skey = RequestKey(op)])
         /\ uuidCount' = IF UsesUuid(op) THEN uuidCount + 1 ELSE uuidCount
         /\ last' = last

\* Variant: an operation that finds _store rejected opens the database again.
AwaitStoreReopens == opens' = IF storePromise = "rejected" THEN opens + 1 ELSE opens

\* `await this._store`: an operation reads the promise the constructor
\* stored; it never calls indexedDB.open and never assigns _store.
AwaitStore == opens' = opens

\* Variant: an operation never waits for _store.
MustWaitNever == FALSE

\* `await this._store` suspends the operation while _store is pending;
\* continuations resume in the order the operations were called.
MustWait == storePromise = "pending" \/ waiting # <<>>

\* The page makes its calls one after another: none is in flight.
Idle == waiting = <<>> /\ requests = <<>>

\* An async method is called.  While _store is pending (or earlier calls
\* still wait for it) the call suspends at `await this._store`; on a settled
\* _store its continuation runs before any other event is handled.
Call(op) ==
  /\ inst = "live"
  /\ Idle
  /\ nEvents < MaxEvents
  /\ nEvents' = nEvents + 1
  /\ IF MustWait
       THEN /\ waiting' = Append(waiting, op)
            /\ UNCHANGED <<requests, last, uuidCount>>
       ELSE /\ waiting' = waiting
            /\ Proceed(op)
  /\ AwaitStore
  /\ UNCHANGED <<dbVars, otherConn, inst, tables, reqVersion, openReq, storePromise,
                 storeErr, threw>>

\* _store has settled: the operation that waited longest resumes.
GetTable ==
  /\ waiting # <<>>
  /\ storePromise \in {"fulfilled", "rejected"}
  /\ waiting' = Tail(waiting)
  /\ Proceed(Head(waiting))
  /\ AwaitStore
  /\ UNCHANGED <<dbVars, otherConn, inst, tables, reqVersion, openReq, storePromise,
                 storeErr, threw, nEvents>>

\* Read/write transactions on one table run in the order they were created.
Ready(i) ==
  /\ i \in 1..Len(requests)
  /\ \A j \in 1..(i - 1) : requests[j].table # requests[i].table

\* get: result.onsuccess resolves with the request's result.
GetDone(i) ==
  /\ Ready(i)
  /\ requests[i].kind = "get"
  /\ LET op == requests[i] IN
       last' = Settled(op, "resolved", StoreGet(records[TxTable(op)], op.skey), "none")
  /\ requests' = RemoveAt(requests, i)
  /\ UNCHANGED <<dbVars, otherConn, instVars, waiting, nEvents, uuidCount>>

\* getAll: result.onsuccess resolves with the request's result.
GetAllDone(i) ==
  /\ Ready(i)
  /\ requests[i].kind = "getAll"
  /\ LET op == requests[i] IN
       last' = Settled(op, "resolved", StoreGetAll(records[TxTable(op)]), "none")
  /\ requests' = RemoveAt(requests, i)
  /\ UNCHANGED <<dbVars, otherConn, instVars, waiting, nEvents, uuidCount>>

\* IDBObjectStore.add fails with ConstraintError when the key is stored or a
\* unique index is violated; IDBObjectStore.put only in the second case.
\* Variant: add behaves as put.
AddConflictAsPut(t, key, rec) == UniqueViolation(t, key, rec)

\* Variant: add never fails.
AddConflictNever(t, key, rec) == FALSE

\* Variant: add checks the key only, no unique index.
AddConflictKeyOnly(t, key, rec) == key \in DOMAIN records[t]

AddConflict(t, key, rec) == key \in DOMAIN records[t] \/ UniqueViolation(t, key, rec)

\* Variant: put never fails.
PutConflictNever(t, key, rec) == FALSE

PutConflict(t, key, rec) == UniqueViolation(t, key, rec)

\* create: result.onerror rejects with the request's error, result.onsuccess
\* resolves.
CreateDone(i) ==
  /\ Ready(i)
  /\ requests[i].kind = "create"
  /\ LET op == requests[i]
         t == TxTable(op)
     IN IF AddConflict(t, op.skey, op.rec)
          THEN /\ last' = Settled(op, "rejected", Void, "ConstraintError")
               /\ records' = records
          ELSE /\ last' = Settled(op, "resolved", Void, "none")
               /\ records' = [records EXCEPT ![t] = StorePut(@, op.skey, op.rec)]
  /\ requests' = RemoveAt(requests, i)
  /\ UNCHANGED <<dbVersion, storeNames, indexes, otherConn, instVars, waiting, nEvents,
                 uuidCount>>

\* update: table.put overwrites the record under the request's key unless a
\* unique index is violated.
UpdateDone(i) ==
  /\ Ready(i)
  /\ requests[i].kind = "update"
  /\ LET op == requests[i]
         t == TxTable(op)
     IN IF PutConflict(t, op.skey, op.rec)
          THEN /\ last' = Settled(op, "rejected", Void, "ConstraintError")
               /\ records' = records
          ELSE /\ last' = Settled(op, "resolved", Void, "none")
               /\ records' = [records EXCEPT ![t] = StorePut(@, op.skey, op.rec)]
  /\ requests' = RemoveAt(requests, i)
  /\ UNCHANGED <<dbVersion, storeNames, indexes, otherConn, instVars, waiting, nEvents,
                 uuidCount>>

\* Variant: deleting a key that is not stored is an error.
DeleteFailsWhenAbsent(t, key) == key \notin DOMAIN records[t]

\* IDBObjectStore.delete reports no error, whether or not the key is stored.
DeleteFails(t, key) == FALSE

\* delete: result.onerror rejects with the request's error, result.onsuccess
\* resolves.
DeleteDone(i) ==
  /\ Ready(i)
  /\ requests[i].kind = "delete"
  /\ LET op == requests[i]
         t == TxTable(op)
     IN IF DeleteFails(t, op.skey)
          THEN /\ last' = Settled(op, "rejected", Void, "NotFoundError")
               /\ records' = records
          ELSE /\ last' = Settled(op, "resolved", Void, "none")
               /\ records' = [records EXCEPT ![t] = StoreDelete(@, op.skey)]
  /\ requests' = RemoveAt(requests, i)
  /\ UNCHANGED <<dbVersion, storeNames, indexes, otherConn, instVars, waiting, nEvents,
                 uuidCount>>

Next ==
  \/ \E tbls \in Schemas, v \in 1..MaxVersion : Construct(tbls, v)
  \/ OnError
  \/ OnBlocked
  \/ OnUpgradeNeeded
  \/ OnSuccess
  \/ OnVersionChange
  \/ Reload
  \/ OtherOpens
  \/ OtherCloses
  \/ \E op \in Calls : Call(op)
  \/ GetTable
  \/ \E i \in 1..MaxEvents : GetDone(i)
  \/ \E i \in 1..MaxEvents : GetAllDone(i)
  \/ \E i \in 1..MaxEvents : CreateDone(i)
  \/ \E i \in 1..MaxEvents : UpdateDone(i)
  \/ \E i \in 1..MaxEvents : DeleteDone(i)

Spec == Init /\ [][Next]_vars

\* Two operations on one table are called in the same task, the second
\* without awaiting the first: both suspend at `await this._store` and resume
\* in the order of the calls.
CallPair ==
  /\ inst = "live"
  /\ Idle
  /\ nEvents + 2 <= MaxEvents
  /\ nEvents' = nEvents + 2
  /\ \E op1 \in Calls : \E op2 \in {o \in Calls : o.table = op1.table} :
       waiting' = <<op1, op2>>
  /\ AwaitStore
  /\ UNCHANGED <<dbVars, otherConn, inst, tables, reqVersion, openReq, storePromise,
                 storeErr, threw, requests, last, uuidCount>>

\* One session of a page on a fresh database, with concurrent calls.  Any
\* requested version upgrades a fresh database, so the first one stands for
\* all.
NextConc ==
  \/ \E tbls \in Schemas : Construct(tbls, 1)
  \/ OnError
  \/ OnUpgradeNeeded
  \/ OnSuccess
  \/ \E op \in Calls : Call(op)
  \/ CallPair
  \/ GetTable
  \/ \E i \in 1..MaxEvents : GetDone(i)
  \/ \E i \in 1..MaxEvents : GetAllDone(i)
  \/ \E i \in 1..MaxEvents : CreateDone(i)
  \/ \E i \in 1..MaxEvents : UpdateDone(i)
  \/ \E i \in 1..MaxEvents : DeleteDone(i)

SpecConc == Init /\ [][NextConc]_vars

\* ------------------------------------------------------------- properties
\* The step settles an operation.
Settles == last'.n = last.n + 1

\* The step settles an operation by completing its request: _store was
\* fulfilled and the table was an object store of the database.
EngineSettles == Settles /\ Len(requests') < Len(requests)

\* What get(t, k) resolves with in the state reached by the step.
GetAfter(t, k) == StoreGet(records'[t], GetKey(Op("get", t, k, NoRec)))

KeyRank(k) == CHOOSE i \in 1..Len(KeyOrder) : KeyOrder[i] = k

\* C1: after create(T, R) resolves, get(T, key(R)) resolves to R, where key(R)
\* is R.id when R has an id and otherwise a generated key that was not stored
\* in T before.
C1Step ==
  /\ (EngineSettles /\ last'.kind = "create" /\ last'.status = "resolved") =>
       LET t == last'.table
           R == last'.rec
           k == last'.skey
       IN /\ R.id # NoId => k = R.id
          /\ R.id = NoId => k \notin DOMAIN records[t]
          /\ GetAfter(t, k) = RecV(R)
  /\ (/\ Settles
      /\ last'.kind = "get"
      /\ last.kind = "create"
      /\ last.status = "resolved"
      /\ last'.table = last.table
      /\ last'.key = last.skey) =>
       (last'.status = "resolved" /\ last'.value = RecV(last.rec))

CreateGetRoundTrip == [][C1Step]_vars

CreateGetRoundTripWitness ==
  /\ last.n = 2
  /\ last.kind = "get"
  /\ last.key = "k1"
  /\ last.status = "resolved"
  /\ last.value = RecV(Rec("k1", "a"))

\* C2 (as claimed): after update(T, P) with P.id = k resolves, get(T, k)
\* returns P and no other new key is stored.
UpdateUpsertsAtId ==
  [][(EngineSettles /\ last'.kind = "update" /\ last'.status = "resolved") =>
       LET t == last'.table
           k == last'.key
       IN /\ GetAfter(t, k) = RecV(last'.rec)
          /\ DOMAIN records'[t] \subseteq DOMAIN records[t] \cup {k}]_vars

\* C3 (as claimed): the upgrade pass creates every declared table that is
\* absent, with its declared indexes, also when only some are missing.
UpgradeCreatesEveryMissingTable ==
  [][(openReq' = "upgraded" /\ openReq # "upgraded") =>
       \A t \in DOMAIN tables :
         /\ t \in storeNames'
         /\ t \notin storeNames => indexes'[t] = tables[t]]_vars

\* C4: an existing table is never recreated or altered by a construction (its
\* index set and records stay), and a construction with the (schema, version)
\* the database was built from leaves the table and index sets as they are.
C4Step ==
  /\ \A t \in storeNames :
       /\ t \in storeNames'
       /\ indexes'[t] = indexes[t]
       /\ openReq' # openReq => records'[t] = records[t]
  /\ (/\ inst = "live"
      /\ reqVersion = dbVersion
      /\ storeNames = DOMAIN tables
      /\ \A t \in DOMAIN tables : indexes[t] = tables[t]) =>
       (storeNames' = storeNames /\ indexes' = indexes)

SchemaCreationIdempotent == [][C4Step]_vars

SchemaCreationIdempotentWitness ==
  /\ openReq = "success"
  /\ storePromise = "fulfilled"
  /\ reqVersion = dbVersion
  /\ storeNames = DOMAIN tables
  /\ last.n = 0
  /\ \E t \in storeNames : records[t] # Emp

\* C5: create(T, R) rejects when a record is stored under key(R), and T is
\* left unchanged.
CreateRejectsStoredKey ==
  [][(/\ EngineSettles
      /\ last'.kind = "create"
      /\ last'.skey \in DOMAIN records[last'.table]) =>
       (last'.status = "rejected" /\ records' = records)]_vars

CreateRejectsStoredKeyWitness ==
  /\ last.kind = "create"
  /\ last.status = "rejected"
  /\ last.err = "ConstraintError"
  /\ last.skey \in DOMAIN records[last.table]
  /\ records[last.table][last.skey] # last.rec

\* C6 (as claimed): after delete(T, k) resolves, get(T, k) resolves to null,
\* getAll(T) holds no record of key k, and the records under the other keys
\* of T are unchanged.
DeleteRemovesAndGetIsNull ==
  [][(EngineSettles /\ last'.kind = "delete" /\ last'.status = "resolved") =>
       LET t == last'.table
           k == last'.key
       IN /\ GetAfter(t, k) = Null
          /\ k \notin DOMAIN records'[t]
          /\ \A j \in DOMAIN records[t] \ {k} :
               j \in DOMAIN records'[t] /\ records'[t][j] = records[t][j]]_vars

\* C7: delete(T, k) resolves whether or not k is stored, leaves k absent, and
\* on an absent k leaves the table as it was.
DeleteIdempotent ==
  [][(EngineSettles /\ last'.kind = "delete") =>
       LET t == last'.table
           k == last'.key
       IN /\ last'.status = "resolved"
          /\ k \notin DOMAIN records'[t]
          /\ k \notin DOMAIN records[t] => records' = records]_vars

DeleteIdempotentWitness ==
  /\ nEvents = 3
  /\ last.n = 2
  /\ last.kind = "delete"
  /\ last.status = "resolved"
  /\ records[last.table] # Emp

\* C8 (as claimed): get(T, k) for a key that is not stored in an existing
\* table resolves with null.
GetMissingResolvesNull ==
  [][(/\ EngineSettles
      /\ last'.kind = "get"
      /\ last'.skey \notin DOMAIN records[last'.table]) =>
       (last'.status = "resolved" /\ last'.value = Null)]_vars

\* C9: getAll(T) resolves to an array of exactly the stored records, one per
\* key in ascending key order; on an empty table to the empty array.
GetAllExact ==
  [][(EngineSettles /\ last'.kind = "getAll") =>
       LET f == records[last'.table]
           n == Cardinality(DOMAIN f)
           v == last'.value
       IN /\ last'.status = "resolved"
          /\ v.tag = "array"
          /\ Len(v.items) = n
          /\ \E ks \in [1..n -> DOMAIN f] :
               /\ \A i, j \in 1..n : i < j => KeyRank(ks[i]) < KeyRank(ks[j])
               /\ \A i \in 1..n : v.items[i] = f[ks[i]]
          /\ records' = records]_vars

GetAllExactWitness ==
  /\ last.kind = "getAll"
  /\ last.status = "resolved"
  /\ Cardinality(DOMAIN records[last.table]) = 2
  /\ Len(last.value.items) = 2

\* C10: once the open request reports an error or is blocked, _store is
\* rejected and stays rejected for the life of the instance, a later success
\* event included, and every operation that settles is rejected.
C10Step ==
  /\ (openReq = "pending" /\ openReq' \in {"error", "blocked"}) =>
       storePromise' = "rejected"
  /\ (storePromise = "rejected" /\ inst' = "live") =>
       (storePromise' = "rejected" /\ storeErr' = storeErr)
  /\ (Settles /\ storePromise = "rejected") => last'.status = "rejected"

InitFailurePermanent == [][C10Step]_vars

InitFailurePermanentWitness ==
  /\ openReq = "success"
  /\ storePromise = "rejected"
  /\ last.status = "rejected"

\* C11: when initialization has failed, every operation that settles is
\* rejected with the error _store was rejected with, the open failure, and
\* with no other error kind.
InitFailureSurfacesSameKind ==
  [][(Settles /\ storePromise = "rejected") =>
       (last'.status = "rejected" /\ last'.err = storeErr)]_vars

\* C12: an instance makes exactly one open request, at construction: no
\* step of a live instance, an operation after a failed initialization
\* included, makes a second request or returns the request to pending, and
\* _store, once settled, keeps its outcome.
C12Step ==
  inst' = "live" =>
    /\ opens' = 1
    /\ inst = "live" =>
         /\ opens' = opens
         /\ openReq # "pending" => openReq' # "pending"
         /\ storePromise # "pending" =>
              (storePromise' = storePromise /\ storeErr' = storeErr)

SingleOpenAttempt == [][C12Step]_vars

SingleOpenAttemptWitness ==
  /\ inst = "live"
  /\ opens = 1
  /\ storePromise = "rejected"
  /\ last.status = "rejected"
  /\ last.n >= 2

\* C13: the failure kinds can be told apart: a blocked open rejects _store
\* with another error than a refused open (OpeningDbError), and neither is
\* the "no database found" error (NoDbFoundError).
FailureKindsDistinct ==
  [][/\ (openReq = "pending" /\ openReq' = "error") =>
          (storePromise' = "rejected" /\ storeErr' = "OpeningDbError")
     /\ (openReq = "pending" /\ openReq' = "blocked") =>
          (storePromise' = "rejected" /\ storeErr' \notin {"OpeningDbError", "NoDbFoundError"})]_vars

\* The events that take an issued operation towards its settlement: the
\* events of the open request, the resumption after `await this._store`, and
\* the completion of a request.
SettlementStep ==
  \/ OnError
  \/ OnBlocked
  \/ OnUpgradeNeeded
  \/ OnSuccess
  \/ OtherCloses
  \/ GetTable
  \/ \E i \in 1..MaxEvents :
       GetDone(i) \/ GetAllDone(i) \/ CreateDone(i) \/ UpdateDone(i) \/ DeleteDone(i)

\* C14: no operation stays pending forever: while an issued operation has
\* not settled, some event that takes it towards its settlement is still to
\* come, whatever the engine reported, an exception raised inside an event
\* callback included.
NoOperationPendsForever ==
  (inst = "live" /\ (waiting # <<>> \/ requests # <<>>)) => ENABLED SettlementStep

\* C16: the initialization task produces exactly one settled result in every
\* open scenario: once the open request has delivered its last event
\* (success, error, or blocked), _store is fulfilled or rejected, and a
\* settled _store keeps its result.
InitializationSettlesOnce ==
  [][/\ openReq' \in {"success", "error", "blocked"} =>
          storePromise' \in {"fulfilled", "rejected"}
     /\ (inst' = "live" /\ storePromise \in {"fulfilled", "rejected"}) =>
          storePromise' = storePromise]_vars

\* C15: on an opened database, an operation that names a table which is no
\* object store of it is rejected with the "no database / table found"
\* error (NoDbFoundError) and leaves every table as it was.
MissingTableRejectsNotFound ==
  [][(Settles /\ storePromise = "fulfilled" /\ last'.table \notin storeNames) =>
       /\ last'.status = "rejected"
       /\ last'.err = "NoDbFoundError"
       /\ UNCHANGED <<storeNames, indexes, records>>]_vars

\* C17: construction returns with the open request pending; while _store
\* has not been fulfilled no request is placed on any table and, while it is
\* pending, no operation settles; once _store is fulfilled the operation
\* that waited places the request an operation called afterwards places.
C17Step ==
  /\ (inst = "none" /\ inst' = "live") =>
       (openReq' = "pending" /\ storePromise' = "pending")
  /\ (inst' = "live" /\ storePromise' # "fulfilled") => requests' = <<>>
  /\ (inst' = "live" /\ storePromise' = "pending") => last' = NoLast
  /\ (/\ inst' = "live"
      /\ storePromise = "fulfilled"
      /\ waiting # <<>>
      /\ waiting' = Tail(waiting)) =>
       LET op == Head(waiting) IN
         IF op.table \in storeNames
           THEN /\ Len(requests') = Len(requests) + 1
                /\ requests'[Len(requests')] = [op EXCEPT !.skey = RequestKey(op)]
                /\ last' = last
           ELSE /\ requests' = requests
                /\ Settles
                /\ last'.status = "rejected"

OperationsWaitForInitialization == [][C17Step]_vars

OperationsWaitForInitializationWitness ==
  /\ storePromise = "fulfilled"
  /\ waiting # <<>>
  /\ Head(waiting).table \in storeNames
  /\ requests = <<>>

\* C18: when a version-change event fires on the open connection, the
\* handler re-applies "create the missing tables": in the state it leaves
\* every declared table exists, the tables that existed keep their indexes
\* and records, and the handler raised no exception.
VersionChangeReappliesSchema ==
  [][OnVersionChange =>
       /\ \A t \in DOMAIN tables : t \in storeNames'
       /\ \A t \in storeNames :
            t \in storeNames' /\ indexes'[t] = indexes[t] /\ records'[t] = records[t]
       /\ ~CreateTablesThrows(tables, storeNames, FALSE)]_vars

\* C19 as stated: the update path and the delete path both address the table
\* with a freshly generated random key, never with the key of the caller.
UpdateAndDeleteUseRandomKey ==
  \A i \in 1..Len(requests) :
    requests[i].kind \in {"update", "delete"} =>
      /\ requests[i].skey \in {UuidPool[j] : j \in 1..uuidCount}
      /\ requests[i].skey # requests[i].key

\* C19, amended: the update path addresses the table with a freshly
\* generated random key on every call (a key no caller supplies, no earlier
\* call generated and no table holds), not with the id of the resource; the
\* delete path addresses the table with the key the caller supplied.
UpdateUsesRandomKeyDeleteCallerKey ==
  \A i \in 1..Len(requests) :
    LET op == requests[i] IN
      /\ op.kind = "update" =>
           /\ op.skey \in {UuidPool[j] : j \in 1..uuidCount}
           /\ op.skey \notin CallerIds
           /\ op.skey # op.rec.id
           /\ \A t \in TableNames : op.skey \notin DOMAIN records[t]
           /\ \A j \in 1..Len(requests) : j # i => requests[j].skey # op.skey
      /\ op.kind = "delete" => op.skey = op.key

UpdateUsesRandomKeyDeleteCallerKeyWitness ==
  /\ \E i \in 1..Len(requests) :
       /\ requests[i].kind = "update"
       /\ requests[i].key \in DOMAIN records[requests[i].table]
  /\ last.kind = "delete"
  /\ last.status = "resolved"
  /\ last.skey = last.key

\* C20: every operation affects at most the table it names: no step of an
\* operation (its call, its resumption, its settlement) changes the version,
\* the set of tables or an index; get and getAll leave the records of every
\* table unchanged; create, update and delete on T leave the records of
\* every other table unchanged.
C20Step ==
  (inst' = "live" /\ <<waiting, requests, last>>' # <<waiting, requests, last>>) =>
    /\ UNCHANGED <<dbVersion, storeNames, indexes>>
    /\ \A t \in TableNames :
         records'[t] # records[t] =>
           /\ Settles
           /\ last'.kind \in {"create", "update", "delete"}
           /\ last'.table = t

C22Step ==
  (Settles /\ last'.kind = "update") =>
    LET t == last'.table IN
      /\ \A k \in DOMAIN records[t] :
           k \in DOMAIN records'[t] /\ records'[t][k] = records[t][k]
      /\ (/\ EngineSettles
          /\ IdUnique \in indexes[t]
          /\ \E k \in DOMAIN records[t] : records[t][k].id = last'.rec.id) =>
           (last'.status = "rejected" /\ records' = records)

UpdateKeepsStoredPairs == [][C22Step]_vars

UpdateKeepsStoredPairsWitness ==
  /\ last.kind = "update"
  /\ last.status = "rejected"
  /\ last.err = "ConstraintError"
  /\ IdUnique \in indexes[last.table]
  /\ \E k \in DOMAIN records[last.table] : records[last.table][k].id = last.rec.id

\* Two records of table t stored under different keys hold the same value
\* of a field a unique index of t covers.
SharedUniqueValue(t) ==
  \E ix \in indexes[t] :
    /\ ix.unique
    /\ \E k1, k2 \in DOMAIN records[t] :
         /\ k1 # k2
         /\ Field(records[t][k1], ix.name) # NoId
         /\ Field(records[t][k1], ix.name) = Field(records[t][k2], ix.name)

\* C23: in a table with a unique index on a field, a create whose key is new
\* but whose value of that field is the value of a stored record is rejected
\* and leaves the tables as they were; and in every reachable state no two
\* stored records share a value of a unique-indexed field.
C23Step ==
  /\ (/\ EngineSettles
      /\ last'.kind = "create"
      /\ last'.skey \notin DOMAIN records[last'.table]
      /\ UniqueViolation(last'.table, last'.skey, last'.rec)) =>
       (last'.status = "rejected" /\ records' = records)
  /\ \A t \in TableNames : ~SharedUniqueValue(t)'

UniqueIndexEnforced == [][C23Step]_vars

UniqueIndexEnforcedWitness ==
  /\ last.kind = "create"
  /\ last.status = "rejected"
  /\ last.skey \notin DOMAIN records[last.table]
  /\ UniqueViolation(last.table, last.skey, last.rec)

\* Two create requests on one table under one key are in flight.
TwoCreatesInFlight ==
  /\ Len(requests) = 2
  /\ requests[1].kind = "create"
  /\ requests[2].kind = "create"
  /\ requests[1].table = requests[2].table
  /\ requests[1].skey = requests[2].skey

\* The step completes a create request whose table and key are those of
\* the create that settled just before it.
SecondCreateSettles ==
  /\ EngineSettles
  /\ last'.kind = "create"
  /\ last.kind = "create"
  /\ last.status = "resolved" \/ last.err = "ConstraintError"
  /\ last'.table = last.table
  /\ last'.skey = last.skey

\* C21 as stated: of two concurrent create calls with the same key exactly
\* one resolves and the other rejects, and the table then holds at that key
\* the record of the call that resolved.
ConcurrentCreatesExactlyOneResolves ==
  [][SecondCreateSettles =>
       LET t == last'.table
           k == last'.skey
       IN /\ (last.status = "resolved") # (last'.status = "resolved")
          /\ k \in DOMAIN records'[t]
          /\ records'[t][k] = IF last.status = "resolved" THEN last.rec ELSE last'.rec]_vars

\* C21, amended: concurrent operations on one table take effect one after
\* another.  Of two concurrent creates with the same key, each takes effect
\* on the table the other left: when the key is not stored and the record
\* of the first to run violates no unique index, that one resolves, the
\* other rejects and the table holds at the key the record of the one that
\* resolved; when the key is already stored both reject and the table is
\* unchanged; at most one of the two ever resolves.
C21Step ==
  /\ (TwoCreatesInFlight /\ EngineSettles) =>
       LET t == requests[1].table
           k == requests[1].skey
       IN /\ TwoCreatesInFlight
          /\ Len(requests') = 1
          /\ last'.kind = "create" /\ last'.table = t /\ last'.skey = k
          /\ last'.rec \in {requests[1].rec, requests[2].rec}
          /\ requests'[1].rec \in {requests[1].rec, requests[2].rec}
          /\ IF k \notin DOMAIN records[t] /\ ~UniqueViolation(t, k, last'.rec)
               THEN /\ last'.status = "resolved"
                    /\ records' = [records EXCEPT ![t] = StorePut(@, k, last'.rec)]
               ELSE /\ last'.status = "rejected"
                    /\ records' = records
  /\ SecondCreateSettles =>
       LET t == last'.table
           k == last'.skey
       IN /\ last.status = "resolved" =>
               /\ last'.status = "rejected"
               /\ records' = records
               /\ records'[t][k] = last.rec
          /\ (last.status = "rejected" /\ k \in DOMAIN records[t]) =>
               /\ last'.status = "rejected"
               /\ records' = records

ConcurrentCreatesSerialize == [][C21Step]_vars

ConcurrentCreatesSerializeWitness ==
  /\ TwoCreatesInFlight
  /\ requests[1].rec # requests[2].rec
  /\ requests[1].skey \notin DOMAIN records[requests[1].table]
====
